---- MODULE Spec2Model ----
(***************************************************************************)
(* GPS path trackers of monitoring-andover.                                *)
(*                                                                         *)
(*   standalone tracker : src/trj.js           (global  state)             *)
(*   dashboard tracker  : src/krakatau-andover-fe-master/script.js         *)
(*                                              (x_data().gpsTracker)      *)
(*   control panel      : src/unnamed/part_000  (x_data(), connectGcs)     *)
(*                                                                         *)
(* The three scripts live on different pages; `page` says which one is     *)
(* loaded, and only that page's handlers run.                              *)
(*                                                                         *)
(* Geometry.  Coordinates are integers counting grid steps of arc length,  *)
(* GridPerMeter steps to the metre.  Every fix of a session lies on one    *)
(* great circle through (0,0) (a meridian, or the equator), where the      *)
(* haversine distance is exactly the arc-length difference and the         *)
(* equirectangular projection is exactly the coordinate difference.        *)
(* Time is Date.now() in milliseconds, advancing in steps of TickMs; two   *)
(* events may read the same millisecond.                                   *)
(*                                                                         *)
(* inflight holds the dashboard's /context requests awaiting a response;   *)
(* scaleValue is the grid spacing updateScaleInfo last computed for        *)
(* display; ev is the event turn just taken and redrawn says whether it    *)
(* called the page's draw function.                                        *)
(*                                                                         *)
(* surfaceCamera and underwaterCamera hold each camera's configured        *)
(* waypoints and the automatic captures that are awaiting the camera's     *)
(* answer, each with the waypoint it was started for.                      *)
(*                                                                         *)
(* isConnecting and app_connect are the control panel's isConnecting and   *)
(* vehicleData.app_connect; attempts holds its connectGcs() calls whose    *)
(* fetch is unsettled or whose abort timer is still pending.               *)
(***************************************************************************)
EXTENDS Integers, Sequences, FiniteSets, TLC

VARIABLES page, now, timers, watches, nextWatch, denied, geoSupported,
          state, status, gpsTracker, vehicleData, inflight, scaleValue, ev, redrawn,
          surfaceCamera, underwaterCamera, isConnecting, app_connect, attempts

vars == <<page, now, timers, watches, nextWatch, denied, geoSupported,
          state, status, gpsTracker, vehicleData, inflight, scaleValue, ev, redrawn,
          surfaceCamera, underwaterCamera, isConnecting, app_connect, attempts>>

----------------------------------------------------------------------------
(* Bounds of the model *)

GridPerMeter == 2
MaxPath == 2
TickMs == 1000
MaxWatches == 2
MaxInflight == 2
MaxCanvasWidth == 1600
(* the equatorial feed: FeedLen fixes, FeedStepMeters metres apart (0.0010
   degrees of longitude on the equator are 111 m) *)
FeedLen == 3
FeedStepMeters == 111
(* mission waypoints 0 .. MaxWP; automatic captures awaiting an answer, per
   camera *)
MaxWP == 1
MaxCapturing == 2
(* connectGcs() calls with a fetch or an abort timer outstanding *)
MaxAttempts == 2

(* Program constants *)

MIN_DISTANCE == 1
MIN_TIME_BETWEEN == 1000
AUTO_RETRY_DELAY == 3000
INIT_START_DELAY == 500
DASH_RETRY_DELAY == 2000
DASH_MAX_RETRY == 10
SCALE == 3
MARGIN == 40
GRID_SIZES == <<1, 2, 5, 10, 20, 50, 100>>
DASH_INIT_CANVAS == 300
DASH_MAX_CANVAS == 600
DASH_RESIZE_SLACK == 50
ABORT_DELAY == 5000

----------------------------------------------------------------------------
(* Values *)

Null == <<>>
Some(v) == <<v>>
Val(o) == o[1]
IsSet(o) == o # Null

Abs(n) == IF n < 0 THEN -n ELSE n
Last(s) == s[Len(s)]

(* Latitudes 0 .. a grid step past one metre; two meridians, 0 and 1. *)
Coords == 0..(MIN_DISTANCE * GridPerMeter + 1)
Meridians == {0, 1}
CanvasSizes == {280, 580}
(* widths of the dashboard canvas' container and of the canvas as laid out *)
ClientWidths == {300, 380}
ErrorCodes == {"PERMISSION_DENIED", "POSITION_UNAVAILABLE", "TIMEOUT"}
(* The horizon: the start timer of init(), one retry delay and one filter
   interval after the first tick. *)
MaxTime == TickMs + INIT_START_DELAY + AUTO_RETRY_DELAY + MIN_TIME_BETWEEN
(* The dashboard's horizon: the first tick at which the retry of a START
   clicked at load time is due. *)
DashMaxTime == TickMs * (1 + (DASH_RETRY_DELAY + TickMs - 1) \div TickMs)
MaxTimers == MaxWatches

(* The event turn just taken: the handler that ran and its input. *)
Event(op, lat, lon, code) == [op |-> op, lat |-> lat, lon |-> lon, code |-> code]

----------------------------------------------------------------------------
(* Pure functions *)

(* trj.js calculateDistance / script.js calculateDistance: haversine, in grid
   steps.  Both callers pass two points of one meridian, where
   a = sin^2(dLat/2) and d = 2*R*atan2(sqrt(a), sqrt(1-a)) = R*|dLat|; for two
   points of the equator a = sin^2(dLon/2) and d = R*|dLon|. *)
calculateDistance(lat1, lon1, lat2, lon2) ==
    IF lon1 = lon2 THEN Abs(lat2 - lat1) ELSE Abs(lon2 - lon1)

(* The fixes calculateDistance is exact for: on the meridian of the stored
   points. *)
OnTrack(path, lon) == \A i \in 1..Len(path) : path[i].lon = lon

gpsToXY_Absolute(originGPS, lat, lon) == [x |-> lon, y |-> lat]

(* trj.js gpsToXY.  x = dLon * R * cos(origin.lat), y = dLat * R, in grid
   steps; on one meridian dLon = 0, so the cosine multiplies 0. *)
gpsToXY(originGPS, lat, lon) ==
    IF ~IsSet(originGPS) THEN [x |-> 0, y |-> 0]
    ELSE [x |-> lon - Val(originGPS).lon, y |-> lat - Val(originGPS).lat]

(* script.js gpsToLocalXY.  After computing x and y the function evaluates
   ctx.fillText(...) and no binding of ctx is in scope: with an origin set,
   the call ends in a ReferenceError instead of returning. *)
gpsToLocalXY(originGPS, lat, lon) ==
    IF ~IsSet(originGPS) THEN [x |-> 0, y |-> 0, fault |-> FALSE]
    ELSE [x |-> lon - Val(originGPS).lon, y |-> lat - Val(originGPS).lat, fault |-> TRUE]

(* viewRange = (canvas.width - MARGIN * 2) / pixelsPerMeter, kept as an
   exact fraction num / den *)
viewRangeOf(canvasWidth) == [num |-> canvasWidth - MARGIN * 2, den |-> SCALE]

(* viewRange / s >= 4 *)
ShowsFourDivisions(viewRange, s) == viewRange.num >= 4 * s * viewRange.den

(* viewRange > limit *)
Exceeds(viewRange, limit) == viewRange.num > limit * viewRange.den

(* trj.js getGridSpacing: the loop over CONFIG.GRID_SIZES from index i down *)
RECURSIVE getGridSpacingFrom(_, _)
getGridSpacingFrom(viewRange, i) ==
    IF i < 1 THEN GRID_SIZES[1]
    ELSE IF ShowsFourDivisions(viewRange, GRID_SIZES[i]) THEN GRID_SIZES[i]
    ELSE getGridSpacingFrom(viewRange, i - 1)

getGridSpacing_SkipsLargest(viewRange) == getGridSpacingFrom(viewRange, Len(GRID_SIZES) - 1)

getGridSpacing(viewRange) == getGridSpacingFrom(viewRange, Len(GRID_SIZES))

(* script.js getGridSpacing *)
getGridSpacingDash(viewRange) ==
    IF Exceeds(viewRange, 500) THEN 100
    ELSE IF Exceeds(viewRange, 200) THEN 50
    ELSE IF Exceeds(viewRange, 100) THEN 20
    ELSE IF Exceeds(viewRange, 50) THEN 10
    ELSE IF Exceeds(viewRange, 20) THEN 5
    ELSE IF Exceeds(viewRange, 10) THEN 2
    ELSE 1

(* script.js: !lat || !lon || lat === 0 || lon === 0 *)
InvalidGPS(lat, lon) == lat = 0 \/ lon = 0

(* trj.js handlePosition, line 114: the fix is skipped *)
FixSkipped_TimeFlipped(dist, timeDiff) ==
    dist < MIN_DISTANCE * GridPerMeter /\ timeDiff > MIN_TIME_BETWEEN

FixSkipped_Or(dist, timeDiff) ==
    dist < MIN_DISTANCE * GridPerMeter \/ timeDiff < MIN_TIME_BETWEEN

FixSkipped(dist, timeDiff) ==
    dist < MIN_DISTANCE * GridPerMeter /\ timeDiff < MIN_TIME_BETWEEN

(* trj.js handlePosition, lines 118-120: what the fix adds to totalDistance *)
OdometerDelta_Raw(dist) == dist

OdometerDelta_Strict(dist) == IF dist > MIN_DISTANCE * GridPerMeter THEN dist ELSE 0

OdometerDelta(dist) == IF dist >= MIN_DISTANCE * GridPerMeter THEN dist ELSE 0

(* trj.js handlePosition, line 115: `return; // Skip update`, leaving state
   s when the fix at distance dist is skipped *)
skipUpdate_Counts(s, dist) == [s EXCEPT !.totalDistance = @ + dist]

skipUpdate(s, dist) == s

(* trj.js handlePosition, lines 94-97: origin and start time on the first fix *)
SetOrigin(s, lat, lon, timestamp) ==
    IF ~IsSet(s.originGPS)
    THEN [s EXCEPT !.originGPS = Some([lat |-> lat, lon |-> lon]),
                   !.startTime = Some(timestamp)]
    ELSE s

(* script.js updateGPSPosition, line 650: dist < 0.5 *)
SmallMove(dist) == 2 * dist < GridPerMeter

PathPoint(xy, lat, lon, timestamp) ==
    [x |-> xy.x, y |-> xy.y, lat |-> lat, lon |-> lon, timestamp |-> timestamp]

----------------------------------------------------------------------------
(* Initial state: after init() of the loaded page *)

InitState ==
    [watchId |-> 0, originGPS |-> Null, path |-> <<>>, totalDistance |-> 0,
     startTime |-> Null, lastUpdateTime |-> 0, canvasWidth |-> 280]

(* surfaceCamera / underwaterCamera, script.js 18-34: waypoints: []; capturing
   holds the currentWP of every waypointCapture...Auto call suspended at its
   await *)
InitCamera == [waypoints |-> <<>>, capturing |-> <<>>]

InitTracker ==
    [watchId |-> 0, originGPS |-> Null, path |-> <<>>, totalDistance |-> 0,
     startTime |-> Null, isTracking |-> FALSE, retryCount |-> 0,
     canvasWidth |-> DASH_INIT_CANVAS]

Init ==
    /\ page \in {"trj", "dashboard"}
    /\ now = TickMs
    /\ timers = IF page = "trj" THEN <<TickMs + INIT_START_DELAY>> ELSE <<>>
    /\ watches = {}
    /\ nextWatch = 1
    /\ denied = FALSE
    /\ geoSupported \in BOOLEAN
    /\ state = InitState
    /\ status = "Idle"
    /\ gpsTracker = InitTracker
    /\ vehicleData = [lat |-> 0, long |-> 0]
    /\ inflight = <<>>
    /\ scaleValue = IF page = "trj"
                    THEN getGridSpacing(viewRangeOf(InitState.canvasWidth))
                    ELSE getGridSpacingDash(viewRangeOf(InitTracker.canvasWidth))
    /\ ev = Event("init", 0, 0, "")
    /\ redrawn = TRUE
    /\ surfaceCamera = InitCamera
    /\ underwaterCamera = InitCamera
    /\ isConnecting = FALSE
    /\ app_connect = FALSE
    /\ attempts = <<>>

----------------------------------------------------------------------------
(* Standalone tracker, src/trj.js *)

(* startTracking, run by the timer of init() or of handleError *)
startTracking ==
    /\ page = "trj"
    /\ timers # <<>> /\ now >= Head(timers)
    /\ timers' = Tail(timers)
    /\ ev' = Event("startTracking", 0, 0, "")
    /\ redrawn' = FALSE
    /\ IF ~geoSupported
       THEN /\ status' = "Not Supported"
            /\ UNCHANGED <<watches, nextWatch, state>>
       ELSE /\ status' = "Searching"
            /\ watches' = watches \cup {nextWatch}
            /\ state' = [state EXCEPT !.watchId = nextWatch]
            /\ nextWatch' = nextWatch + 1
    /\ UNCHANGED <<isConnecting, app_connect, attempts, surfaceCamera, underwaterCamera, page, now, denied, geoSupported, gpsTracker, vehicleData, inflight, scaleValue>>

(* handlePosition(position) *)
handlePositionAt(lat, lon) ==
    LET timestamp == now
        first == ~IsSet(state.originGPS)
        s1 == SetOrigin(state, lat, lon, timestamp)
        has == Len(s1.path) > 0
        last == Last(s1.path)
        dist == calculateDistance(last.lat, last.lon, lat, lon)
        timeDiff == timestamp - s1.lastUpdateTime
        s2 == IF has THEN [s1 EXCEPT !.totalDistance = @ + OdometerDelta(dist)] ELSE s1
        xy == gpsToXY(s2.originGPS, lat, lon)
    IN  /\ ev' = Event("handlePosition", lat, lon, "")
        /\ status' = IF first THEN "Tracking" ELSE status
        /\ IF has /\ FixSkipped(dist, timeDiff)
           THEN /\ state' = skipUpdate(s1, dist)
                /\ redrawn' = FALSE
           ELSE /\ state' = [s2 EXCEPT !.lastUpdateTime = timestamp,
                                       !.path = Append(@, PathPoint(xy, lat, lon, timestamp))]
                /\ redrawn' = TRUE

(* a live watch delivers a fix *)
handlePosition ==
    /\ page = "trj"
    /\ watches # {} /\ ~denied
    /\ Len(state.path) < MaxPath
    /\ \E lat \in Coords, lon \in Meridians \ {0} :
          /\ OnTrack(state.path, lon)
          /\ handlePositionAt(lat, lon)
    /\ UNCHANGED <<isConnecting, app_connect, attempts, surfaceCamera, underwaterCamera, page, now, timers, watches, nextWatch, denied, geoSupported,
                   gpsTracker, vehicleData, inflight, scaleValue>>

(* window.exportCSV, lines 503-508: the header and one line per stored point;
   a line is the tuple of its fields (accuracy and speed are not part of the
   stored points here) *)
CSV_HEADER == "x_meters,y_meters,latitude,longitude,accuracy,speed,timestamp"

csvLine(p) == <<p.x, p.y, p.lat, p.lon, p.timestamp>>

(* window.exportCSV(), lines 497-514: the value returned; with no stored
   point the function warns and returns nothing *)
exportCSVOf(path) ==
    IF Len(path) = 0 THEN Null
    ELSE Some(<<CSV_HEADER>> \o [i \in 1..Len(path) |-> csvLine(path[i])])

(* exportCSV() typed in the console *)
exportCSV ==
    /\ page = "trj"
    /\ ev' = Event("exportCSV", 0, 0,
                   IF IsSet(exportCSVOf(state.path)) THEN "csv" ELSE "undefined")
    /\ redrawn' = FALSE
    /\ UNCHANGED <<isConnecting, app_connect, attempts, surfaceCamera, underwaterCamera, page, now, timers, watches, nextWatch, denied, geoSupported,
                   state, status, gpsTracker, vehicleData, inflight, scaleValue>>

(* handleError, line 169: setTimeout(startTracking, CONFIG.AUTO_RETRY_DELAY)
   called at time t with ts the timers already pending *)
scheduleRetry_Twice(ts, t) == Append(Append(ts, t + AUTO_RETRY_DELAY), t + AUTO_RETRY_DELAY)

scheduleRetry(ts, t) == Append(ts, t + AUTO_RETRY_DELAY)

(* handleError(error) *)
handleErrorOf(code) ==
    /\ ev' = Event("handleError", 0, 0, code)
    /\ redrawn' = FALSE
    /\ denied' = (denied \/ code = "PERMISSION_DENIED")
    /\ IF code = "TIMEOUT"
       THEN /\ timers' = scheduleRetry(timers, now)
            /\ UNCHANGED status
       ELSE /\ status' = IF code = "PERMISSION_DENIED" THEN "Permission Denied"
                         ELSE "Unavailable"
            /\ UNCHANGED timers

(* a live watch reports an error; after PERMISSION_DENIED the browser
   delivers nothing more *)
handleError ==
    /\ page = "trj"
    /\ watches # {} /\ ~denied
    /\ \E code \in ErrorCodes :
          /\ code = "TIMEOUT" => nextWatch + Len(timers) <= MaxWatches
          /\ handleErrorOf(code)
    /\ UNCHANGED <<isConnecting, app_connect, attempts, surfaceCamera, underwaterCamera, page, now, watches, nextWatch, geoSupported, state, gpsTracker, vehicleData, inflight, scaleValue>>

(* resizeCanvas, the window's resize listener *)
resizeCanvas ==
    /\ page = "trj"
    /\ \E size \in CanvasSizes : state' = [state EXCEPT !.canvasWidth = size]
    /\ scaleValue' = getGridSpacing(viewRangeOf(state'.canvasWidth))
    /\ ev' = Event("resize", 0, 0, "")
    /\ redrawn' = TRUE
    /\ UNCHANGED <<isConnecting, app_connect, attempts, surfaceCamera, underwaterCamera, page, now, timers, watches, nextWatch, denied, geoSupported,
                   status, gpsTracker, vehicleData, inflight>>

----------------------------------------------------------------------------
(* Dashboard tracker, src/krakatau-andover-fe-master/script.js *)

(* drawGPSCanvas -> updateScaleInfo: the scale text drawn on a canvas of
   the given width *)
drawnScale(canvasWidth) == getGridSpacingDash(viewRangeOf(canvasWidth))

(* drawExamplePattern on a surface showing the layers painted, the canvas
   laid out clientWidth wide.  Lines 404-405 assign canvas.width and
   canvas.height, which resets the bitmap; the pattern is then drawn on the
   blank surface. *)
drawExamplePattern(painted, clientWidth) ==
    [painted |-> {"pattern"}, canvasWidth |-> clientWidth]

(* drawGPSCanvas on tracker g: clearRect, drawAxes, drawOrigin, drawPath if
   a point is stored, updateScaleInfo, then drawExamplePattern.  The result
   is what the surface shows and how wide the canvas is afterwards. *)
drawGPSCanvas(g, clientWidth) ==
    LET cleared == {}
        withPath == cleared \cup {"axes", "origin"}
                            \cup (IF Len(g.path) > 0 THEN {"path"} ELSE {})
    IN  drawExamplePattern(withPath \cup {"scale"}, clientWidth)

(* initGPSCanvas, the window's resize listener.  container is
   container.clientWidth and client is canvas.clientWidth after the
   resize.  The canvas takes its laid-out width; only when that is more than
   50 px from newSize is the canvas redrawn, at newSize, and drawGPSCanvas
   ends in drawExamplePattern, which sets canvas.width = canvas.clientWidth
   again. *)
resizeListener ==
    /\ page = "dashboard"
    /\ \E container \in ClientWidths, client \in ClientWidths :
          LET newSize == IF container < DASH_MAX_CANVAS THEN container ELSE DASH_MAX_CANVAS
              redraw == Abs(client - newSize) > DASH_RESIZE_SLACK
              sized == [gpsTracker EXCEPT !.canvasWidth = newSize]
          IN  /\ gpsTracker' = [gpsTracker EXCEPT !.canvasWidth =
                                   IF redraw THEN drawGPSCanvas(sized, client).canvasWidth
                                   ELSE client]
              /\ redrawn' = redraw
              /\ scaleValue' = IF redraw THEN drawnScale(newSize) ELSE scaleValue
    /\ ev' = Event("resize", 0, 0, "")
    /\ UNCHANGED <<isConnecting, app_connect, attempts, surfaceCamera, underwaterCamera, page, now, timers, watches, nextWatch, denied, geoSupported,
                   state, status, vehicleData, inflight>>

(* updateGPSPosition() on tracker g, with vehicleData = (lat, lon) *)
updateGPSPosition(g, lat, lon) ==
    LET timestamp == now
        g1 == IF ~IsSet(g.originGPS)
              THEN [g EXCEPT !.originGPS = Some([lat |-> lat, lon |-> lon]),
                             !.startTime = Some(timestamp)]
              ELSE g
        has == Len(g1.path) > 0
        last == Last(g1.path)
        dist == calculateDistance(last.lat, last.lon, lat, lon)
        g2 == IF has THEN [g1 EXCEPT !.totalDistance = @ + dist] ELSE g1
        xy == gpsToLocalXY(g2.originGPS, lat, lon)
    IN  IF InvalidGPS(lat, lon) THEN [g |-> g, drawn |-> FALSE, fault |-> FALSE]
        ELSE IF has /\ SmallMove(dist) THEN [g |-> g1, drawn |-> FALSE, fault |-> FALSE]
        ELSE IF xy.fault THEN [g |-> g2, drawn |-> FALSE, fault |-> TRUE]
        ELSE [g |-> [g2 EXCEPT !.path = Append(@, PathPoint(xy, lat, lon, timestamp))],
              drawn |-> TRUE, fault |-> FALSE]

updateGPSFromVehicle_Unguarded(g, lat, lon) == updateGPSPosition(g, lat, lon)

(* updateGPSFromVehicle() *)
updateGPSFromVehicle(g, lat, lon) ==
    IF ~g.isTracking \/ InvalidGPS(lat, lon)
    THEN [g |-> g, drawn |-> FALSE, fault |-> FALSE]
    ELSE updateGPSPosition(g, lat, lon)

(* The /context requests awaiting their response, oldest first.  An entry
   is TRUE once the response to a later request has been handled: what it
   will deliver is older than what the page already holds.  A response may
   take any time, so the responses to two pending requests arrive in either
   order. *)
answered(pending, i) ==
    [j \in 1..(Len(pending) - 1) |-> IF j < i THEN TRUE ELSE pending[j + 1]]

(* the vehicle's current_wp values and the waypoint lists a user saves:
   waypointsText.split(" ") of a non-empty text of distinct waypoint numbers *)
WPs == 0..MaxWP

WaypointLists ==
    {<<ToString(a)>> : a \in WPs} \cup
    {<<ToString(ab[1]), ToString(ab[2])>> : ab \in {x \in WPs \X WPs : x[1] # x[2]}}

(* waypoints.includes(s) *)
includes(waypoints, s) == \E i \in 1..Len(waypoints) : waypoints[i] = s

(* waypoints.filter(wp => wp !== s) *)
without(waypoints, s) == SelectSeq(waypoints, LAMBDA wp : wp # s)

(* the pending calls but the i-th *)
resumed(capturing, i) ==
    [j \in 1..(Len(capturing) - 1) |-> IF j < i THEN capturing[j] ELSE capturing[j + 1]]

(* waypointCaptureSurfaceAuto(), up to its await: with the vehicle at a
   configured waypoint it calls captureSurfaceImage(), which issues the
   capture request, and is suspended until the camera answers *)
waypointCaptureSurfaceAuto(camera, currentWP) ==
    IF Len(camera.waypoints) = 0 THEN camera
    ELSE IF includes(camera.waypoints, ToString(currentWP))
    THEN [camera EXCEPT !.capturing = Append(@, currentWP)]
    ELSE camera

(* waypointCaptureUnderwaterAuto(), up to its await *)
waypointCaptureUnderwaterAuto(camera, currentWP) ==
    IF Len(camera.waypoints) = 0 THEN camera
    ELSE IF includes(camera.waypoints, ToString(currentWP))
    THEN [camera EXCEPT !.capturing = Append(@, currentWP)]
    ELSE camera

(* waypointCapture...Auto() after its await, lines 283 and 304: the i-th
   suspended call drops its waypoint from the list.  captureSurfaceImage and
   captureUnderwaterImage catch their own errors, so the call resumes the
   same way whether the capture succeeded or failed. *)
captured(camera, i) ==
    [camera EXCEPT !.waypoints = without(@, ToString(camera.capturing[i])),
                   !.capturing = resumed(@, i)]

(* init(), the 2-second interval fires: axios.get(`${ipAddress}/context`) *)
pollRequest ==
    /\ page = "dashboard"
    /\ Len(inflight) < MaxInflight
    /\ inflight' = Append(inflight, FALSE)
    /\ ev' = Event("pollRequest", 0, 0, "")
    /\ redrawn' = FALSE
    /\ UNCHANGED <<isConnecting, app_connect, attempts, surfaceCamera, underwaterCamera, page, now, timers, watches, nextWatch, denied, geoSupported,
                   state, status, gpsTracker, vehicleData, scaleValue>>

(* init(), the interval's callback resumes after its await: a /context
   response arrives, carrying the vehicle position (lat, lon) *)
poll ==
    /\ page = "dashboard"
    /\ Len(gpsTracker.path) < MaxPath
    /\ Len(surfaceCamera.capturing) < MaxCapturing
    /\ Len(underwaterCamera.capturing) < MaxCapturing
    /\ \E current_wp \in WPs :
          /\ surfaceCamera' = waypointCaptureSurfaceAuto(surfaceCamera, current_wp)
          /\ underwaterCamera' = waypointCaptureUnderwaterAuto(underwaterCamera, current_wp)
    /\ \E i \in 1..Len(inflight) : inflight' = answered(inflight, i)
    /\ \E lat \in Coords, lon \in Meridians :
          LET r == updateGPSFromVehicle(gpsTracker, lat, lon)
          IN  /\ vehicleData' = [lat |-> lat, long |-> lon]
              /\ gpsTracker' = r.g
              /\ redrawn' = r.drawn
              /\ scaleValue' = IF r.drawn THEN drawnScale(r.g.canvasWidth) ELSE scaleValue
              /\ ev' = Event("poll", lat, lon, IF r.fault THEN "ReferenceError" ELSE "")
    /\ UNCHANGED <<isConnecting, app_connect, attempts, page, now, timers, watches, nextWatch, denied, geoSupported, state, status>>

(* saveSurfaceWaypoints(): the waypoints of a mission are saved once the
   list is used up and no automatic capture is pending *)
saveSurfaceWaypoints ==
    /\ page = "dashboard"
    /\ surfaceCamera = InitCamera
    /\ \E waypoints \in WaypointLists :
          surfaceCamera' = [surfaceCamera EXCEPT !.waypoints = waypoints]
    /\ ev' = Event("saveSurfaceWaypoints", 0, 0, "")
    /\ redrawn' = FALSE
    /\ UNCHANGED <<isConnecting, app_connect, attempts, underwaterCamera, page, now, timers, watches, nextWatch, denied,
                   geoSupported, state, status, gpsTracker, vehicleData, inflight,
                   scaleValue>>

(* saveUnderwaterWaypoints() *)
saveUnderwaterWaypoints ==
    /\ page = "dashboard"
    /\ underwaterCamera = InitCamera
    /\ \E waypoints \in WaypointLists :
          underwaterCamera' = [underwaterCamera EXCEPT !.waypoints = waypoints]
    /\ ev' = Event("saveUnderwaterWaypoints", 0, 0, "")
    /\ redrawn' = FALSE
    /\ UNCHANGED <<isConnecting, app_connect, attempts, surfaceCamera, page, now, timers, watches, nextWatch, denied,
                   geoSupported, state, status, gpsTracker, vehicleData, inflight,
                   scaleValue>>

(* the surface camera answers a capture request: the suspended
   waypointCaptureSurfaceAuto() resumes *)
surfaceCaptured ==
    /\ page = "dashboard"
    /\ \E i \in 1..Len(surfaceCamera.capturing) :
          /\ surfaceCamera' = captured(surfaceCamera, i)
          /\ ev' = Event("surfaceCaptured", 0, 0, ToString(surfaceCamera.capturing[i]))
    /\ redrawn' = FALSE
    /\ UNCHANGED <<isConnecting, app_connect, attempts, underwaterCamera, page, now, timers, watches, nextWatch, denied,
                   geoSupported, state, status, gpsTracker, vehicleData, inflight,
                   scaleValue>>

(* the underwater camera answers a capture request *)
underwaterCaptured ==
    /\ page = "dashboard"
    /\ \E i \in 1..Len(underwaterCamera.capturing) :
          /\ underwaterCamera' = captured(underwaterCamera, i)
          /\ ev' = Event("underwaterCaptured", 0, 0, ToString(underwaterCamera.capturing[i]))
    /\ redrawn' = FALSE
    /\ UNCHANGED <<isConnecting, app_connect, attempts, surfaceCamera, page, now, timers, watches, nextWatch, denied,
                   geoSupported, state, status, gpsTracker, vehicleData, inflight,
                   scaleValue>>

(* startGPSTracking() *)
startGPSTrackingBody(pending) ==
    LET lat == vehicleData.lat
        lon == vehicleData.long
        count == gpsTracker.retryCount + 1
    IN  IF gpsTracker.isTracking
        THEN /\ timers' = pending
             /\ UNCHANGED <<gpsTracker, watches, nextWatch>>
        ELSE IF InvalidGPS(lat, lon)
        THEN /\ IF count < DASH_MAX_RETRY
                THEN /\ gpsTracker' = [gpsTracker EXCEPT !.retryCount = count]
                     /\ timers' = Append(pending, now + DASH_RETRY_DELAY)
                ELSE /\ gpsTracker' = [gpsTracker EXCEPT !.retryCount = 0]
                     /\ timers' = pending
             /\ UNCHANGED <<watches, nextWatch>>
        ELSE /\ timers' = pending
             /\ IF geoSupported
                THEN /\ gpsTracker' = [gpsTracker EXCEPT
                            !.retryCount = 0,
                            !.originGPS = Some([lat |-> lat, lon |-> lon]),
                            !.startTime = Some(now),
                            !.isTracking = TRUE,
                            !.watchId = nextWatch]
                     /\ watches' = watches \cup {nextWatch}
                     /\ nextWatch' = nextWatch + 1
                ELSE /\ gpsTracker' = [gpsTracker EXCEPT
                            !.retryCount = 0,
                            !.originGPS = Some([lat |-> lat, lon |-> lon]),
                            !.startTime = Some(now),
                            !.isTracking = TRUE]
                     /\ UNCHANGED <<watches, nextWatch>>

(* the START button *)
startGPSTracking ==
    /\ page = "dashboard"
    /\ Len(timers) < MaxTimers /\ nextWatch <= MaxWatches
    /\ startGPSTrackingBody(timers)
    /\ ev' = Event("startGPSTracking", vehicleData.lat, vehicleData.long, "click")
    /\ redrawn' = FALSE
    /\ UNCHANGED <<isConnecting, app_connect, attempts, surfaceCamera, underwaterCamera, page, now, denied, geoSupported, state, status, vehicleData, inflight, scaleValue>>

(* the retry timer of startGPSTracking, line 717 *)
startGPSTrackingRetry ==
    /\ page = "dashboard"
    /\ timers # <<>> /\ now >= Head(timers)
    /\ nextWatch <= MaxWatches
    /\ startGPSTrackingBody(Tail(timers))
    /\ ev' = Event("startGPSTracking", vehicleData.lat, vehicleData.long, "retry")
    /\ redrawn' = FALSE
    /\ UNCHANGED <<isConnecting, app_connect, attempts, surfaceCamera, underwaterCamera, page, now, denied, geoSupported, state, status, vehicleData, inflight, scaleValue>>

(* stopGPSTracking() on tracker g *)
stopped(g) == [g EXCEPT !.isTracking = FALSE]

unwatched_Keeps(g, ws) == ws

unwatched(g, ws) == IF g.watchId # 0 THEN ws \ {g.watchId} ELSE ws

stopGPSTracking ==
    /\ page = "dashboard"
    /\ gpsTracker' = stopped(gpsTracker)
    /\ watches' = unwatched(gpsTracker, watches)
    /\ ev' = Event("stopGPSTracking", 0, 0, "")
    /\ redrawn' = FALSE
    /\ UNCHANGED <<isConnecting, app_connect, attempts, surfaceCamera, underwaterCamera, page, now, timers, nextWatch, denied, geoSupported, state, status, vehicleData, inflight, scaleValue>>

(* clearGPSPath(); confirmed is the answer to confirm('Clear GPS data?') *)
clearGPSPath ==
    /\ page = "dashboard"
    /\ \E confirmed \in BOOLEAN :
          /\ ev' = Event("clearGPSPath", 0, 0, IF confirmed THEN "ok" ELSE "cancel")
          /\ IF ~confirmed
             THEN /\ redrawn' = FALSE
                  /\ UNCHANGED <<gpsTracker, watches, scaleValue>>
             ELSE /\ gpsTracker' =
                       [(IF gpsTracker.isTracking THEN stopped(gpsTracker) ELSE gpsTracker)
                          EXCEPT !.path = <<>>, !.originGPS = Null, !.totalDistance = 0,
                                 !.startTime = Null, !.retryCount = 0]
                  /\ watches' = IF gpsTracker.isTracking
                                THEN unwatched(gpsTracker, watches) ELSE watches
                  /\ redrawn' = TRUE
                  /\ scaleValue' = drawnScale(gpsTracker.canvasWidth)
    /\ UNCHANGED <<isConnecting, app_connect, attempts, surfaceCamera, underwaterCamera, page, now, timers, nextWatch, denied, geoSupported, state, status, vehicleData,
                   inflight>>

(* the browser watch of startGPSTracking, lines 749-756: a fallback fix *)
browserFix ==
    /\ page = "dashboard"
    /\ watches # {}
    /\ \E lat \in Coords, lon \in Meridians :
          /\ vehicleData' = IF vehicleData.lat = 0
                            THEN [lat |-> lat, long |-> lon] ELSE vehicleData
          /\ ev' = Event("browserFix", 0, 0, "")
    /\ redrawn' = FALSE
    /\ UNCHANGED <<isConnecting, app_connect, attempts, surfaceCamera, underwaterCamera, page, now, timers, watches, nextWatch, denied, geoSupported,
                   state, status, gpsTracker, inflight, scaleValue>>

----------------------------------------------------------------------------
(* The clock: Date.now() moves on between two event turns *)

Tick ==
    /\ now + TickMs <= (IF page = "trj" THEN MaxTime ELSE DashMaxTime)
    /\ now' = now + TickMs
    /\ ev' = Event("idle", 0, 0, "")
    /\ redrawn' = FALSE
    /\ UNCHANGED <<isConnecting, app_connect, attempts, surfaceCamera, underwaterCamera, page, timers, watches, nextWatch, denied, geoSupported,
                   state, status, gpsTracker, vehicleData, inflight, scaleValue>>

Next ==
    \/ startTracking
    \/ handlePosition
    \/ handleError
    \/ resizeCanvas
    \/ exportCSV
    \/ resizeListener
    \/ pollRequest
    \/ poll
    \/ startGPSTracking
    \/ startGPSTrackingRetry
    \/ stopGPSTracking
    \/ clearGPSPath
    \/ browserFix
    \/ Tick

Spec == Init /\ [][Next]_vars

(* The standalone page alone *)
InitTrj == page = "trj" /\ Init

NextTrj ==
    \/ startTracking
    \/ handlePosition
    \/ handleError
    \/ resizeCanvas
    \/ exportCSV
    \/ Tick

TrjSpec == InitTrj /\ [][NextTrj]_vars

(* The standalone page fed along the equator: the watch delivers the fixes
   (0, 0), (0, 0.0010), (0, 0.0020), ... one after the other, longitude in
   grid steps *)
feedLon(k) == k * FeedStepMeters * GridPerMeter

handlePositionFeed ==
    /\ page = "trj"
    /\ watches # {} /\ ~denied
    /\ Len(state.path) < FeedLen
    /\ handlePositionAt(0, feedLon(Len(state.path)))
    /\ UNCHANGED <<isConnecting, app_connect, attempts, surfaceCamera, underwaterCamera, page, now, timers, watches, nextWatch, denied, geoSupported,
                   gpsTracker, vehicleData, inflight, scaleValue>>

NextFeed ==
    \/ startTracking
    \/ handlePositionFeed
    \/ handleError
    \/ resizeCanvas
    \/ exportCSV
    \/ Tick

FeedSpec == InitTrj /\ [][NextFeed]_vars

(* The dashboard's START retries on their own: the vehicle never reports a
   valid position, START may be clicked at any time, and the clock runs
   until every retry of a START clicked at load time has come due *)
RetryMaxTime == TickMs + DASH_MAX_RETRY * DASH_RETRY_DELAY

InitRetry == page = "dashboard" /\ Init

TickRetry ==
    /\ now + TickMs <= RetryMaxTime
    /\ now' = now + TickMs
    /\ ev' = Event("idle", 0, 0, "")
    /\ redrawn' = FALSE
    /\ UNCHANGED <<isConnecting, app_connect, attempts, surfaceCamera, underwaterCamera, page, timers, watches, nextWatch, denied, geoSupported,
                   state, status, gpsTracker, vehicleData, inflight, scaleValue>>

NextRetry ==
    \/ startGPSTracking
    \/ startGPSTrackingRetry
    \/ TickRetry

RetrySpec == InitRetry /\ [][NextRetry]_vars

(* The dashboard's automatic captures on their own: waypoints are saved, the
   vehicle's context is polled and the cameras answer *)
InitCapture == page = "dashboard" /\ Init

NextCapture ==
    \/ saveSurfaceWaypoints
    \/ saveUnderwaterWaypoints
    \/ pollRequest
    \/ poll
    \/ surfaceCaptured
    \/ underwaterCaptured

CaptureSpec == InitCapture /\ [][NextCapture]_vars

----------------------------------------------------------------------------
(* Control panel, src/unnamed/part_000 *)

(* The panel's horizon: two abort delays after the first tick *)
GcsMaxTime == TickMs + 2 * ABORT_DELAY

(* connectGcs, line 132: if (this.isConnecting) return; *)
returnsEarly_Never(connecting) == FALSE

returnsEarly(connecting) == connecting

(* connectGcs, lines 138-139: a new AbortController, its abort timer and the
   fetch it guards *)
Attempt(t) == [settled |-> FALSE, timer |-> TRUE, abortAt |-> t + ABORT_DELAY]

(* the attempts with something outstanding: an unsettled fetch or a pending
   abort timer *)
outstanding(as) == SelectSeq(as, LAMBDA a : ~a.settled \/ a.timer)

(* the fetches awaiting their outcome *)
Unsettled(as) == {i \in 1..Len(as) : ~as[i].settled}

(* connectGcs() up to its await: the CONNECT button *)
connectGcs ==
    /\ page = "panel"
    /\ Len(attempts) < MaxAttempts
    /\ IF returnsEarly(isConnecting)
       THEN /\ ev' = Event("connectGcs", 0, 0, "ignored")
            /\ UNCHANGED <<isConnecting, attempts>>
       ELSE /\ ev' = Event("connectGcs", 0, 0, "issued")
            /\ isConnecting' = TRUE
            /\ attempts' = Append(attempts, Attempt(now))
    /\ redrawn' = FALSE
    /\ UNCHANGED <<app_connect, surfaceCamera, underwaterCamera, page, now, timers,
                   watches, nextWatch, denied, geoSupported, state, status,
                   gpsTracker, vehicleData, inflight, scaleValue>>

(* connectGcs() after its await, the server answered: clearTimeout, then
   response.ok sets app_connect, any other status throws into the catch
   block; finally isConnecting = false *)
fetchResponse ==
    /\ page = "panel"
    /\ \E i \in Unsettled(attempts), ok \in BOOLEAN :
          /\ attempts' = outstanding([attempts EXCEPT ![i].settled = TRUE,
                                                      ![i].timer = FALSE])
          /\ app_connect' = ok
          /\ ev' = Event("fetch", 0, 0, IF ok THEN "ok" ELSE "status")
    /\ isConnecting' = FALSE
    /\ redrawn' = FALSE
    /\ UNCHANGED <<surfaceCamera, underwaterCamera, page, now, timers,
                   watches, nextWatch, denied, geoSupported, state, status,
                   gpsTracker, vehicleData, inflight, scaleValue>>

(* connectGcs() after its await, the fetch was rejected by a network
   failure: the catch block runs without clearTimeout, so the abort timer
   stays pending *)
fetchFailure ==
    /\ page = "panel"
    /\ \E i \in Unsettled(attempts) :
          attempts' = outstanding([attempts EXCEPT ![i].settled = TRUE])
    /\ app_connect' = FALSE
    /\ isConnecting' = FALSE
    /\ ev' = Event("fetch", 0, 0, "failure")
    /\ redrawn' = FALSE
    /\ UNCHANGED <<surfaceCamera, underwaterCamera, page, now, timers,
                   watches, nextWatch, denied, geoSupported, state, status,
                   gpsTracker, vehicleData, inflight, scaleValue>>

(* the abort timer of an attempt, line 139: controller.abort().  An
   unsettled fetch is rejected with AbortError and connectGcs() resumes in
   its catch block; on a settled one the abort does nothing. *)
abortTimer ==
    /\ page = "panel"
    /\ \E i \in 1..Len(attempts) :
          /\ attempts[i].timer /\ now >= attempts[i].abortAt
          /\ attempts' = outstanding([attempts EXCEPT ![i].settled = TRUE,
                                                      ![i].timer = FALSE])
          /\ IF attempts[i].settled
             THEN /\ ev' = Event("abortTimer", 0, 0, "stale")
                  /\ UNCHANGED <<isConnecting, app_connect>>
             ELSE /\ ev' = Event("fetch", 0, 0, "abort")
                  /\ app_connect' = FALSE
                  /\ isConnecting' = FALSE
    /\ redrawn' = FALSE
    /\ UNCHANGED <<surfaceCamera, underwaterCamera, page, now, timers,
                   watches, nextWatch, denied, geoSupported, state, status,
                   gpsTracker, vehicleData, inflight, scaleValue>>

(* disconnectGcs() *)
disconnectGcs ==
    /\ page = "panel"
    /\ app_connect' = FALSE
    /\ ev' = Event("disconnectGcs", 0, 0, "")
    /\ redrawn' = FALSE
    /\ UNCHANGED <<isConnecting, attempts, surfaceCamera, underwaterCamera, page, now,
                   timers, watches, nextWatch, denied, geoSupported, state, status,
                   gpsTracker, vehicleData, inflight, scaleValue>>

TickGcs ==
    /\ now + TickMs <= GcsMaxTime
    /\ now' = now + TickMs
    /\ ev' = Event("idle", 0, 0, "")
    /\ redrawn' = FALSE
    /\ UNCHANGED <<isConnecting, app_connect, attempts, surfaceCamera, underwaterCamera,
                   page, timers, watches, nextWatch, denied, geoSupported,
                   state, status, gpsTracker, vehicleData, inflight, scaleValue>>

InitGcs ==
    /\ page = "panel"
    /\ now = TickMs
    /\ timers = <<>>
    /\ watches = {}
    /\ nextWatch = 1
    /\ denied = FALSE
    /\ geoSupported = TRUE
    /\ state = InitState
    /\ status = "Idle"
    /\ gpsTracker = InitTracker
    /\ vehicleData = [lat |-> 0, long |-> 0]
    /\ inflight = <<>>
    /\ scaleValue = 0
    /\ ev = Event("init", 0, 0, "")
    /\ redrawn = FALSE
    /\ surfaceCamera = InitCamera
    /\ underwaterCamera = InitCamera
    /\ isConnecting = FALSE
    /\ app_connect = FALSE
    /\ attempts = <<>>

NextGcs ==
    \/ connectGcs
    \/ fetchResponse
    \/ fetchFailure
    \/ abortTimer
    \/ disconnectGcs
    \/ TickGcs

GcsSpec == InitGcs /\ [][NextGcs]_vars

----------------------------------------------------------------------------
(* The grid scale on its own: a page with a canvas of any width up to
   MaxCanvasWidth shows its scale *)

InitGrid ==
    /\ page \in {"trj", "dashboard"}
    /\ now = TickMs
    /\ timers = <<>>
    /\ watches = {}
    /\ nextWatch = 1
    /\ denied = FALSE
    /\ geoSupported = TRUE
    /\ state \in {[InitState EXCEPT !.canvasWidth = w] :
                      w \in IF page = "trj" THEN 0..MaxCanvasWidth ELSE {InitState.canvasWidth}}
    /\ status = "Idle"
    /\ gpsTracker \in {[InitTracker EXCEPT !.canvasWidth = w] :
                      w \in IF page = "trj" THEN {InitTracker.canvasWidth} ELSE 0..MaxCanvasWidth}
    /\ vehicleData = [lat |-> 0, long |-> 0]
    /\ inflight = <<>>
    /\ scaleValue = 0
    /\ ev = Event("init", 0, 0, "")
    /\ redrawn = FALSE
    /\ surfaceCamera = InitCamera
    /\ underwaterCamera = InitCamera
    /\ isConnecting = FALSE
    /\ app_connect = FALSE
    /\ attempts = <<>>

(* trj.js updateScaleInfo: scaleValue shows getGridSpacing() *)
updateScaleInfo ==
    /\ page = "trj"
    /\ scaleValue' = getGridSpacing(viewRangeOf(state.canvasWidth))
    /\ ev' = Event("updateScaleInfo", 0, 0, "")
    /\ UNCHANGED <<isConnecting, app_connect, attempts, surfaceCamera, underwaterCamera, page, now, timers, watches, nextWatch, denied, geoSupported,
                   state, status, gpsTracker, vehicleData, inflight, redrawn>>

(* script.js updateScaleInfo: scaleText shows this.getGridSpacing() *)
updateScaleInfoDash ==
    /\ page = "dashboard"
    /\ scaleValue' = getGridSpacingDash(viewRangeOf(gpsTracker.canvasWidth))
    /\ ev' = Event("updateScaleInfo", 0, 0, "")
    /\ UNCHANGED <<isConnecting, app_connect, attempts, surfaceCamera, underwaterCamera, page, now, timers, watches, nextWatch, denied, geoSupported,
                   state, status, gpsTracker, vehicleData, inflight, redrawn>>

NextGrid ==
    \/ updateScaleInfo
    \/ updateScaleInfoDash

GridSpec == InitGrid /\ [][NextGrid]_vars

----------------------------------------------------------------------------
(* Vocabulary of the claims *)

(* PathState of a tracker record *)
PathState(t) == <<t.originGPS, t.path, t.totalDistance, t.startTime>>

(* q is p with exactly one point appended *)
AppendsOne(p, q) == Len(q) = Len(p) + 1 /\ SubSeq(q, 1, Len(p)) = p

(* distance of the fix of the event turn being taken from the last stored
   point of the standalone tracker *)
FixDist == calculateDistance(Last(state.path).lat, Last(state.path).lon, ev'.lat, ev'.lon)
FixTimeDiff == now - state.lastUpdateTime
TrjFixStep == ev'.op = "handlePosition" /\ Len(state.path) > 0

(* distance between the last two stored points of a path *)
LastHop(path) ==
    calculateDistance(path[Len(path) - 1].lat, path[Len(path) - 1].lon,
                      Last(path).lat, Last(path).lon)

(* C1: in every reachable state of either tracker the origin is set if and
   only if the stored path is non-empty. *)
C1_OriginIffPath ==
    /\ IsSet(state.originGPS) <=> Len(state.path) > 0
    /\ IsSet(gpsTracker.originGPS) <=> Len(gpsTracker.path) > 0

(* C2: once set, the origin keeps its latitude/longitude until an explicit
   clear: no fix, retry of start, or stop followed by start changes it. *)
C2_OriginFixedUntilClear ==
    [][ /\ IsSet(state.originGPS) => state'.originGPS = state.originGPS
        /\ (IsSet(gpsTracker.originGPS) /\ ev'.op # "clearGPSPath")
              => gpsTracker'.originGPS = gpsTracker.originGPS ]_vars

(* C3: a fix closer than MIN_DISTANCE to the last stored point and less than
   MIN_TIME_BETWEEN after lastUpdateTime is rejected: path, totalDistance,
   lastUpdateTime, origin and startTime are unchanged and nothing is redrawn. *)
C3_RejectedFixChangesNothing ==
    [][ (/\ TrjFixStep
         /\ FixDist < MIN_DISTANCE * GridPerMeter
         /\ FixTimeDiff < MIN_TIME_BETWEEN)
        => (state' = state /\ ~redrawn') ]_vars

(* a fix half a metre or so from the last point has just been rejected *)
C3_Witness ==
    /\ ev.op = "handlePosition" /\ ~redrawn
    /\ Len(state.path) > 0
    /\ ev.lat # Last(state.path).lat
    /\ now - state.lastUpdateTime < MIN_TIME_BETWEEN

(* C4: a fix closer than MIN_DISTANCE but at least MIN_TIME_BETWEEN after
   lastUpdateTime is accepted: exactly one point is appended, lastUpdateTime
   is updated, totalDistance is unchanged. *)
C4_SlowSmallFixAccepted ==
    [][ (/\ TrjFixStep
         /\ FixDist < MIN_DISTANCE * GridPerMeter
         /\ FixTimeDiff >= MIN_TIME_BETWEEN)
        => (/\ AppendsOne(state.path, state'.path)
            /\ Last(state'.path).lat = ev'.lat /\ Last(state'.path).lon = ev'.lon
            /\ state'.lastUpdateTime = now
            /\ state'.totalDistance = state.totalDistance) ]_vars

(* the last point was stored less than MIN_DISTANCE from its predecessor,
   MIN_TIME_BETWEEN or more after it *)
C4_Witness ==
    /\ ev.op = "handlePosition" /\ redrawn
    /\ Len(state.path) >= 2
    /\ LastHop(state.path) < MIN_DISTANCE * GridPerMeter
    /\ LastHop(state.path) > 0
    /\ Last(state.path).timestamp - state.path[Len(state.path) - 1].timestamp >= MIN_TIME_BETWEEN
    /\ state.lastUpdateTime = now

(* C5: a fix at distance d >= MIN_DISTANCE from the last stored point is
   accepted however little time has elapsed: exactly one point is appended
   and totalDistance grows by exactly d. *)
C5_FarFixAccepted ==
    [][ (TrjFixStep /\ FixDist >= MIN_DISTANCE * GridPerMeter)
        => (/\ AppendsOne(state.path, state'.path)
            /\ Last(state'.path).lat = ev'.lat /\ Last(state'.path).lon = ev'.lon
            /\ state'.totalDistance = state.totalDistance + FixDist) ]_vars

(* the last point was stored MIN_DISTANCE or more from its predecessor in
   the same millisecond *)
C5_Witness ==
    /\ ev.op = "handlePosition" /\ redrawn
    /\ Len(state.path) >= 2
    /\ LastHop(state.path) >= MIN_DISTANCE * GridPerMeter
    /\ Last(state.path).timestamp = state.path[Len(state.path) - 1].timestamp
    /\ state.totalDistance >= LastHop(state.path)

(* one step of a tracker's odometer, from record t to record u; fixOp is the
   tracker's fix event *)
OdometerStep(t, u, fixOp) ==
    /\ u.totalDistance >= t.totalDistance
    /\ u.totalDistance > t.totalDistance
          => /\ ev'.op = fixOp
             /\ Len(t.path) > 0
             /\ AppendsOne(t.path, u.path)
             /\ LastHop(u.path) >= MIN_DISTANCE * GridPerMeter
             /\ u.totalDistance = t.totalDistance + LastHop(u.path)

(* C6: within a session totalDistance never decreases, and every step that
   increases it appends one fix and adds that fix's distance d from the last
   stored point, with d >= MIN_DISTANCE, in either tracker. *)
C6_OdometerMonotone ==
    [][ /\ OdometerStep(state, state', "handlePosition")
        /\ ev'.op # "clearGPSPath" => OdometerStep(gpsTracker, gpsTracker', "poll") ]_vars

(* the odometer has just grown *)
C6_Witness ==
    /\ ev.op = "handlePosition" /\ redrawn
    /\ Len(state.path) >= 2
    /\ state.totalDistance > 0

(* tracker record t holds exactly the fix (lat, lon) taken at timestamp as
   its first point, origin and start time *)
FirstFixStored(t, lat, lon, timestamp) ==
    /\ Len(t.path) = 1
    /\ t.path[1].lat = lat /\ t.path[1].lon = lon /\ t.path[1].timestamp = timestamp
    /\ t.originGPS = Some([lat |-> lat, lon |-> lon])
    /\ t.startTime = Some(timestamp)
    /\ t.totalDistance = 0

(* C7: the first fix of a session, delivered while no point is stored, is
   accepted unconditionally and sets origin to that fix's own
   latitude/longitude and startTime to that fix's own timestamp, with
   totalDistance remaining 0, in either tracker. *)
C7_FirstFixSetsOrigin ==
    [][ /\ (ev'.op = "handlePosition" /\ Len(state.path) = 0)
              => FirstFixStored(state', ev'.lat, ev'.lon, now)
        /\ (/\ ev'.op = "poll" /\ gpsTracker.isTracking
            /\ ~InvalidGPS(ev'.lat, ev'.lon) /\ Len(gpsTracker.path) = 0)
              => FirstFixStored(gpsTracker', ev'.lat, ev'.lon, now) ]_vars

(* The standalone half of C7 holds: the first fix handlePosition receives is
   stored with origin and startTime taken from it, and they stay those of
   the first stored point. *)
TrjFirstFixSetsOrigin ==
    [][ /\ (ev'.op = "handlePosition" /\ Len(state.path) = 0)
              => FirstFixStored(state', ev'.lat, ev'.lon, now)
        /\ Len(state'.path) >= 1
              => /\ state'.originGPS = Some([lat |-> state'.path[1].lat,
                                             lon |-> state'.path[1].lon])
                 /\ state'.startTime = Some(state'.path[1].timestamp) ]_vars

(* path q is path p, or p with one later-stamped point appended *)
GrowsInOrder(p, q) ==
    \/ q = p
    \/ /\ AppendsOne(p, q)
       /\ Len(p) > 0 => Last(q).timestamp > Last(p).timestamp

(* C8: between clears the stored path is append-only (a fix event adds zero
   or one point at the end) and the timestamps of the stored points are
   strictly increasing in insertion order. *)
C8_AppendOnlyStrictlyOrdered ==
    [][ /\ GrowsInOrder(state.path, state'.path)
        /\ ev'.op # "clearGPSPath" => GrowsInOrder(gpsTracker.path, gpsTracker'.path) ]_vars

(* C9: start called while the tracker is already Searching or Locked is a
   no-op: no further subscription, the held handle is not replaced, and
   status, origin and PathState are unchanged. *)
C9_StartIdempotent ==
    [][ /\ (ev'.op = "startTracking" /\ status \in {"Searching", "Tracking"})
              => (watches' = watches /\ state' = state /\ status' = status)
        /\ (ev'.op = "startGPSTracking" /\ gpsTracker.isTracking)
              => (watches' = watches /\ gpsTracker' = gpsTracker) ]_vars

(* C10: after a PermissionDenied or PositionUnavailable error the tracker is
   in the Error state and stays there: no later fix is processed and
   PathState does not change. *)
C10_ErrorIsTerminal ==
    [][ /\ (ev'.op = "handleError" /\ ev'.code # "TIMEOUT")
              => status' \in {"Permission Denied", "Unavailable"}
        /\ status \in {"Permission Denied", "Unavailable"}
              => /\ status' = status
                 /\ PathState(state') = PathState(state)
                 /\ state'.lastUpdateTime = state.lastUpdateTime ]_vars

(* C11: a Timeout error delivered while Searching or Locked schedules exactly
   one retry of start, due AUTO_RETRY_DELAY after the error, does not put
   the tracker in Error, and leaves origin, path and totalDistance
   unchanged; the retry runs start no earlier than that. *)
C11_TimeoutSchedulesOneRetry ==
    [][ /\ (/\ ev'.op = "handleError" /\ ev'.code = "TIMEOUT"
            /\ status \in {"Searching", "Tracking"})
              => /\ AppendsOne(timers, timers')
                 /\ Last(timers') = now + AUTO_RETRY_DELAY
                 /\ status' = status
                 /\ state' = state
        /\ ev'.op = "startTracking"
              => /\ now >= Head(timers)
                 /\ timers' = Tail(timers) ]_vars

(* a Timeout has just been handled with a point stored, and its retry is
   pending *)
C11_Witness ==
    /\ ev.op = "handleError" /\ ev.code = "TIMEOUT"
    /\ status = "Tracking" /\ Len(state.path) > 0
    /\ timers = <<now + AUTO_RETRY_DELAY>>

(* C12: clear called while the tracker is tracking is rejected: path,
   origin, totalDistance and startTime are unchanged and the session keeps
   tracking. *)
C12_ClearRejectedWhileTracking ==
    [][ (ev'.op = "clearGPSPath" /\ gpsTracker.isTracking)
        => /\ PathState(gpsTracker') = PathState(gpsTracker)
           /\ gpsTracker'.isTracking
           /\ watches' = watches ]_vars

(* C13: stopGPSTracking called while tracking releases the subscription (no
   watch remains live), leaves isTracking false, and leaves path, origin,
   totalDistance and startTime as they were. *)
C13_StopReleasesAndKeepsPath ==
    [][ (ev'.op = "stopGPSTracking" /\ gpsTracker.isTracking)
        => /\ watches' = {}
           /\ ~gpsTracker'.isTracking
           /\ PathState(gpsTracker') = PathState(gpsTracker) ]_vars

(* tracking that held a browser watch has just been stopped *)
C13_Witness ==
    /\ ev.op = "stopGPSTracking"
    /\ ~gpsTracker.isTracking
    /\ IsSet(gpsTracker.originGPS) /\ IsSet(gpsTracker.startTime)
    /\ gpsTracker.watchId # 0 /\ gpsTracker.watchId \notin watches

(* the dashboard filter accepts the polled position (lat, lon) *)
DashAccepts(g, lat, lon) ==
    /\ g.isTracking
    /\ ~InvalidGPS(lat, lon)
    /\ \/ Len(g.path) = 0
       \/ ~SmallMove(calculateDistance(Last(g.path).lat, Last(g.path).lon, lat, lon))

(* C14: in the dashboard tracker, while tracking, every polled position the
   filter accepts appends exactly one point to the path, is followed by a
   redraw in the same event turn, and the event ends without a fault. *)
C14_AcceptedPollAppendsAndRedraws ==
    [][ (ev'.op = "poll" /\ DashAccepts(gpsTracker, ev'.lat, ev'.lon))
        => /\ AppendsOne(gpsTracker.path, gpsTracker'.path)
           /\ redrawn'
           /\ ev'.code = "" ]_vars

(* C15: in the standalone tracker, whenever a fix delivered while Searching
   or Locked has just been accepted and appended, the status is Locked. *)
C15_AcceptedFixMeansLocked ==
    [][ (/\ ev'.op = "handlePosition"
         /\ status \in {"Searching", "Tracking"}
         /\ AppendsOne(state.path, state'.path))
        => status' = "Tracking" ]_vars

(* the status value that names an error class *)
ErrorStatus(code) ==
    CASE code = "PERMISSION_DENIED" -> "Permission Denied"
      [] code = "POSITION_UNAVAILABLE" -> "Unavailable"
      [] code = "TIMEOUT" -> "Timeout"

(* C17: for every source error class delivered to the tracker, the status
   visible after the error handler returns identifies that class. *)
C17_ErrorStatusNamesClass ==
    [][ ev'.op = "handleError" => status' = ErrorStatus(ev'.code) ]_vars

(* the requests still pending whose response is older than one already
   handled *)
Stale(pending) == {i \in 1..Len(pending) : pending[i]}

(* C16: polled positions are processed in the order the vehicle produced
   them: no response is handled (overwriting vehicleData and entering the
   tracker) after the response to a later request has been handled. *)
C16_PollsHandledInOrder ==
    [][ ev'.op = "poll"
        => Cardinality(Stale(inflight')) >= Cardinality(Stale(inflight)) ]_vars

(* the GridScaler rule: the largest candidate s with viewRange / s >= 4, the
   smallest candidate when there is none *)
Candidates == {GRID_SIZES[i] : i \in 1..Len(GRID_SIZES)}
Largest(S) == CHOOSE s \in S : \A t \in S : t <= s
Smallest(S) == CHOOSE s \in S : \A t \in S : s <= t
GridRule(viewRange) ==
    LET fit == {s \in Candidates : 4 * s * viewRange.den <= viewRange.num}
    IN  IF fit = {} THEN Smallest(Candidates) ELSE Largest(fit)

(* C18: for every view range the standalone getGridSpacing returns the
   largest candidate s with viewRange / s >= 4, the smallest candidate (1)
   when none qualifies, and always a member of the candidate list. *)
C18_GridSpacingIsLargestFit ==
    (page = "trj" /\ ev.op = "updateScaleInfo")
    => /\ scaleValue = GridRule(viewRangeOf(state.canvasWidth))
       /\ scaleValue \in Candidates
       /\ (state.canvasWidth - MARGIN * 2 < 4 * SCALE) => scaleValue = 1

(* the view range is exactly 400 m and the scale shown is 100 *)
C18_Witness ==
    /\ page = "trj" /\ ev.op = "updateScaleInfo"
    /\ state.canvasWidth - MARGIN * 2 = 400 * SCALE
    /\ scaleValue = 100

(* C19: the dashboard's getGridSpacing returns the spacing of the GridScaler
   rule for every view range; a view range of 450 m yields 100. *)
C19_DashGridSpacingMatchesRule ==
    (page = "dashboard" /\ ev.op = "updateScaleInfo")
    => scaleValue = GridRule(viewRangeOf(gpsTracker.canvasWidth))

(* the dashboard shows 50 for a view range of 450 m, where the rule gives
   100 *)
C19_Witness ==
    /\ page = "dashboard" /\ ev.op = "updateScaleInfo"
    /\ gpsTracker.canvasWidth - MARGIN * 2 = 450 * SCALE
    /\ scaleValue = 50
    /\ GridRule(viewRangeOf(gpsTracker.canvasWidth)) = 100

(* C20: every surface-resize event is followed by a full redraw in the same
   event turn and leaves origin, path, totalDistance, startTime and
   lastUpdateTime unchanged, in both trackers. *)
C20_ResizeRedrawsKeepsPath ==
    [][ ev'.op = "resize"
        => /\ redrawn'
           /\ PathState(state') = PathState(state)
           /\ state'.lastUpdateTime = state.lastUpdateTime
           /\ PathState(gpsTracker') = PathState(gpsTracker) ]_vars

(* The standalone half of C20 holds: resizeCanvas takes the new size,
   updates the scale shown, redraws and leaves everything else of the state
   alone. *)
TrjResizeRedrawsKeepsPath ==
    [][ (ev'.op = "resize" /\ page = "trj")
        => /\ redrawn'
           /\ state'.canvasWidth \in CanvasSizes
           /\ state' = [state EXCEPT !.canvasWidth = state'.canvasWidth] ]_vars

(* C21: starting from an empty session, every fed fix that is the first or
   at least MIN_DISTANCE from the last stored point - a first fix at
   latitude 0, longitude 0 included - is stored, and each one after the
   first increases totalDistance, in either tracker. *)
C21_EveryFarFixStored ==
    [][ /\ (ev'.op = "handlePosition"
            /\ (Len(state.path) = 0 \/ FixDist >= MIN_DISTANCE * GridPerMeter))
              => /\ AppendsOne(state.path, state'.path)
                 /\ Len(state.path) > 0 => state'.totalDistance > state.totalDistance
        /\ (ev'.op = "poll" /\ gpsTracker.isTracking
            /\ (\/ Len(gpsTracker.path) = 0
                \/ calculateDistance(Last(gpsTracker.path).lat, Last(gpsTracker.path).lon,
                                     ev'.lat, ev'.lon) >= MIN_DISTANCE * GridPerMeter))
              => /\ AppendsOne(gpsTracker.path, gpsTracker'.path)
                 /\ Len(gpsTracker.path) > 0
                       => gpsTracker'.totalDistance > gpsTracker.totalDistance ]_vars

(* C23: in every reachable state with a non-empty path the first stored
   point has x = 0 and y = 0. *)
C23_FirstPointAtZero ==
    Len(state.path) > 0 => (state.path[1].x = 0 /\ state.path[1].y = 0)

(* a path that starts away from latitude 0 and has moved on *)
C23_Witness ==
    /\ Len(state.path) >= 2
    /\ state.path[1].lat # 0
    /\ state.path[2].y # 0

(* the handle tracker record t holds names the only live subscription *)
HoldsOnlyWatch(t) == watches = {} \/ watches = {t.watchId}

(* C27: at most one position-source subscription is live at any time, and
   watchId refers to the only live one. *)
C27_SingleSubscription ==
    /\ Cardinality(watches) <= 1
    /\ page = "trj" => HoldsOnlyWatch(state)
    /\ page = "dashboard" => HoldsOnlyWatch(gpsTracker)

(* C28: a retry timer scheduled by an earlier start attempt does not start a
   session once stopGPSTracking or clearGPSPath has returned: the retry that
   runs right after the stop or clear leaves isTracking false and sets no
   origin. *)
C28_NoRestartAfterStop ==
    [][ (/\ ev'.op = "startGPSTracking" /\ ev'.code = "retry"
         /\ \/ ev.op = "stopGPSTracking"
            \/ (ev.op = "clearGPSPath" /\ ev.code = "ok"))
        => /\ ~gpsTracker'.isTracking
           /\ gpsTracker'.originGPS = gpsTracker.originGPS ]_vars

(* C29: while the dashboard tracker is not tracking, and whenever the polled
   latitude or longitude is missing or 0, a poll leaves origin, path,
   totalDistance and startTime unchanged. *)
C29_IdleOrInvalidPollIsNoop ==
    [][ (/\ ev'.op = "poll"
         /\ (~gpsTracker.isTracking \/ InvalidGPS(ev'.lat, ev'.lon)))
        => PathState(gpsTracker') = PathState(gpsTracker) ]_vars

(* a valid position has just been polled with tracking off and no origin set *)
C29_Witness ==
    /\ ev.op = "poll" /\ ~InvalidGPS(ev.lat, ev.lon)
    /\ vehicleData = [lat |-> ev.lat, long |-> ev.lon]
    /\ ~gpsTracker.isTracking
    /\ ~IsSet(gpsTracker.originGPS)

(* odometer and path of tracker record t agree, and the step to record u
   changes the odometer only while appending a point or clearing *)
OdometerMatchesPath(t, u) ==
    /\ t.totalDistance > 0 => Len(t.path) >= 2
    /\ Len(t.path) <= 1 => t.totalDistance = 0
    /\ u.totalDistance # t.totalDistance
          => (AppendsOne(t.path, u.path) \/ ev'.op = "clearGPSPath")

(* C30: totalDistance changes only in an event that also appends a point, so
   totalDistance > 0 implies at least two stored points and a path with zero
   or one point has totalDistance = 0, in both trackers. *)
C30_OdometerConsistentWithPath ==
    [][ /\ OdometerMatchesPath(state, state')
        /\ OdometerMatchesPath(gpsTracker, gpsTracker') ]_vars

(* the odometer has grown and two points are stored *)
C30_Witness ==
    /\ state.totalDistance > 0
    /\ Len(state.path) = 2
    /\ state.totalDistance = LastHop(state.path)

(* C22: once the three fixes (0, 0), (0, 0.0010), (0, 0.0020) are stored, the
   last stored point's y is non-zero and double the y of the first point off
   the origin. *)
EquatorFeedStored ==
    /\ page = "trj"
    /\ Len(state.path) = 3
    /\ \A i \in 1..3 : state.path[i].lat = 0 /\ state.path[i].lon = feedLon(i - 1)

C22_LastYDoublesFirstIncrement ==
    EquatorFeedStored =>
        /\ Last(state.path).y # 0
        /\ Last(state.path).y = 2 * state.path[2].y

(* what the code does instead: the eastward motion is in x, y stays 0 *)
C22_Witness ==
    /\ EquatorFeedStored
    /\ Last(state.path).y = 0
    /\ Last(state.path).x = 2 * state.path[2].x /\ state.path[2].x # 0

(* C24: every exportCSV yields the header line followed by exactly one line
   per stored point in insertion order, also when no point is stored, and
   leaves the tracker state unchanged. *)
IsExportOf(out, path) ==
    /\ IsSet(out)
    /\ Len(Val(out)) = 1 + Len(path)
    /\ Val(out)[1] = CSV_HEADER
    /\ \A i \in 1..Len(path) : Val(out)[i + 1] = csvLine(path[i])

C24_ExportHasHeaderAndOneRowPerPoint ==
    [][ ev'.op = "exportCSV" =>
            /\ IsExportOf(exportCSVOf(state.path), state.path)
            /\ state' = state /\ status' = status ]_vars

(* the export of an empty path: nothing is returned *)
C24_Witness ==
    /\ ev.op = "exportCSV" /\ ev.code = "undefined"
    /\ Len(state.path) = 0 /\ ~IsSet(exportCSVOf(state.path))

(* C25: when a redraw of the dashboard canvas finishes, the surface shows the
   axes, the origin marker and the scale readout, and the path if a point is
   stored: nothing in the redraw clears the surface after they were drawn. *)
Surface == drawGPSCanvas(gpsTracker, gpsTracker.canvasWidth).painted

C25_RedrawLeavesLayersOnSurface ==
    (page = "dashboard" /\ redrawn) =>
        /\ {"axes", "origin", "scale"} \subseteq Surface
        /\ Len(gpsTracker.path) > 0 => "path" \in Surface

(* a redraw by the resize listener that leaves only the pattern *)
C25_Witness ==
    /\ page = "dashboard" /\ redrawn /\ ev.op = "resize"
    /\ Surface = {"pattern"}

(* C26: while the vehicle position stays invalid, the startGPSTracking call
   in which retryCount reaches 10 gives up: no retry timer remains pending,
   retryCount is 0 and tracking is not active, also when START was pressed
   several times while retries were pending. *)
GivesUp ==
    /\ ev'.op = "startGPSTracking"
    /\ InvalidGPS(ev'.lat, ev'.lon)
    /\ ~gpsTracker.isTracking
    /\ gpsTracker.retryCount + 1 >= DASH_MAX_RETRY

C26_GiveUpLeavesNoRetryPending ==
    [][ GivesUp => /\ timers' = <<>>
                   /\ gpsTracker'.retryCount = 0
                   /\ ~gpsTracker'.isTracking ]_vars

(* a give-up with another START's retry still pending *)
C26_Witness ==
    /\ page = "dashboard"
    /\ ev.op = "startGPSTracking" /\ InvalidGPS(ev.lat, ev.lon)
    /\ ~gpsTracker.isTracking /\ gpsTracker.retryCount = 0
    /\ timers # <<>>

(* C31: each configured camera waypoint triggers at most one automatic
   capture: no poll issues a capture request for a waypoint of a camera while
   a request for that waypoint is still awaiting that camera's answer. *)
Issued(camera, after) ==
    Len(after.capturing) = Len(camera.capturing) + 1

AlreadyCapturing(camera, wp) ==
    \E i \in 1..Len(camera.capturing) : camera.capturing[i] = wp

OneCapturePerWaypoint(camera, after) ==
    Issued(camera, after) => ~AlreadyCapturing(camera, Last(after.capturing))

C31_OneCapturePerWaypoint ==
    [][ ev'.op = "poll" =>
            /\ OneCapturePerWaypoint(surfaceCamera, surfaceCamera')
            /\ OneCapturePerWaypoint(underwaterCamera, underwaterCamera') ]_vars

(* two capture requests for one waypoint awaiting the surface camera *)
C31_Witness ==
    /\ ev.op = "poll"
    /\ Len(surfaceCamera.capturing) = 2
    /\ surfaceCamera.capturing[1] = surfaceCamera.capturing[2]
    /\ includes(surfaceCamera.waypoints, ToString(surfaceCamera.capturing[1]))

(* C32: connectGcs never has two connection attempts in flight (a call made
   while isConnecting is true issues no request), and every attempt, whether
   it ends in an ok answer, an error status, a network failure or the
   5-second abort, ends with isConnecting false and with app_connect true
   only if the server answered ok; until then its abort timer is pending. *)
C32_OneAttemptAndCleanEnd ==
    [][ /\ Cardinality(Unsettled(attempts')) <= 1
        /\ isConnecting' <=> Unsettled(attempts') # {}
        /\ \A i \in Unsettled(attempts') : attempts'[i].timer
        /\ (ev'.op = "connectGcs" /\ isConnecting) => attempts' = attempts
        /\ (ev'.op = "fetch" /\ Unsettled(attempts) # {}) =>
               /\ ~isConnecting'
               /\ app_connect' <=> ev'.code = "ok" ]_vars

(* a second attempt answered ok while the abort timer of a first attempt,
   ended by a network failure, is still pending *)
C32_Witness ==
    /\ ev.op = "fetch" /\ ev.code = "ok"
    /\ app_connect /\ ~isConnecting
    /\ \E i \in 1..Len(attempts) : attempts[i].settled /\ attempts[i].timer

====
